---- MODULE Spec2Model ----
(***************************************************************************)
(* Face-recognition attendance kiosk: the matching pipeline and the        *)
(* per-identity daily attendance ledger (src/services/apiService.ts,       *)
(* src/services/backendService.ts, src/services/faceEmbed.ts), and the     *)
(* capture view's detection loops (src/components/WebcamCapture.tsx).      *)
(*                                                                         *)
(* Units.  Time is counted in ticks, TicksPerMinute ticks to the minute    *)
(* (the code works in milliseconds, 60000 to the minute).  A descriptor    *)
(* component is counted in tenths, so is a distance and a similarity       *)
(* (THRESH 0.6 is 6, similarity 1.0 is 10).  A signature vector is a unit  *)
(* vector scaled by SigScale, so a cosine similarity is scaled by          *)
(* SigScale * SigScale.  An absent optional number (undefined) is -1, an   *)
(* absent optional string is "", an absent optional vector is << >>.       *)
(* In the capture view time is counted in timer intervals (INTERVAL_MS,    *)
(* 500 ms), a frame is its gray levels, a frame's signature is kept as the *)
(* pair (gray levels, norm) and a similarity as a fraction num / den.      *)
(***************************************************************************)
EXTENDS Integers, Sequences, FiniteSets, TLC

\* ------------------------------------------------------------------ bounds
DayMinutes == 4     \* minutes in a calendar day
MaxDays == 1        \* calendar days the clock runs through
MaxLog == 2         \* attendance events a ledger run creates
MaxMatchLog == 1    \* attendance events a matcher run creates
MaxCallers == 2     \* calls into the candidate index, in progress or returned
MaxRecords == 3     \* records in enrolled_users
MaxNights == 1      \* midnights the clock runs past
MaxMarks == 2       \* markAttendance invocations that overlap
MaxMounts == 2      \* times the capture view starts its detection loops
MaxWall == 3        \* timer intervals the capture view is watched for
MaxJobs == 2        \* detections of one loop that are followed at a time
MaxStable == 2      \* matched frames in a row the face-detection loop counts

\* ------------------------------------------------------------------- units
TicksPerMinute == 3 \* 60000 ms

\* the stability loop's constants: similarities and variance in thousandths,
\* times in timer intervals of 500 ms
STABLE_SIM == 998
FAST_SIM == 999
MOVE_SIM == 985
VAR_MIN == 1
STABLE_FRAMES == 4
ENTER_STABLE_FRAMES == 1
INTERVAL_MS == 1
COOLDOWN_MS == 5
\* the face-detection loop's constants: frames needed
NEED == 1
COUNTDOWN_INIT == 4   \* useState<number>(4)
COUNTDOWN_FROM == 10  \* setCountdown(10), one a second

DayLen == DayMinutes * TicksPerMinute
MaxTime == MaxDays * DayLen - 1

\* --------------------------------------------------------------- constants
THRESH == 6
SHORTLIST_K == 5
MIN_GAP_MS == 2 * TicksPerMinute
SigScale == 5

\* ------------------------------------------------------------------ domain
UserIds == <<"u1", "u2">>
UserIdSet == {UserIds[i] : i \in 1..Len(UserIds)}

NoVec == << >>

\* The reference image stored with each identity: descriptor and signature.
RefImage(u) ==
  IF u = "u1" THEN [desc |-> <<0, 0>>, sig |-> <<5, 0>>]
              ELSE [desc |-> <<6, 0>>, sig |-> <<0, 5>>]

\* Probe images the camera can hand to markAttendance.
ProbeDescs == {NoVec, <<0, 0>>, <<3, 4>>, <<12, 0>>, <<13, 0>>, <<20, 0>>}
ProbeSigs == {<<4, 3>>, <<3, 4>>}
Probes == [desc : ProbeDescs, sig : ProbeSigs]

\* Shift settings an identity can be enrolled with ("HH:mm" as <<h, m>>).
Profiles ==
  { [shiftStart |-> NoVec,    shiftEnd |-> NoVec,    graceMinutes |-> 0],
    [shiftStart |-> <<0, 1>>, shiftEnd |-> <<0, 3>>, graceMinutes |-> 0],
    [shiftStart |-> <<0, 1>>, shiftEnd |-> <<0, 3>>, graceMinutes |-> 1],
    [shiftStart |-> <<0, 2>>, shiftEnd |-> NoVec,    graceMinutes |-> 0] }

EnrolledRec(u, p, img) ==
  [id |-> u, userId |-> u, image |-> img,
   shiftStart |-> p.shiftStart, shiftEnd |-> p.shiftEnd,
   graceMinutes |-> p.graceMinutes]

NoRec == [id |-> "", userId |-> "", image |-> FALSE,
          shiftStart |-> NoVec, shiftEnd |-> NoVec, graceMinutes |-> 0]

\* The calls into the candidate index that can be in progress together.
Callers == 1..MaxCallers

\* a call that has not been made yet
NoTask ==
  [op |-> "", pc |-> "idle", blob |-> NoVec, k |-> 0, users |-> {}, joined |-> 0,
   snap |-> 0, built |-> << >>, hasBuilt |-> FALSE, ranked |-> << >>,
   hasRanked |-> FALSE, failed |-> {}, raced |-> FALSE, ret |-> << >>, out |-> "",
   fetched |-> {}, hasFetched |-> FALSE, after |-> FALSE, afterUsers |-> {},
   imaged |-> {}]

\* ----------------------------------------------------- capture view: data
\* The frames the camera can deliver, as the gray levels of their pixels: a
\* scene at rest (<<5, 12>>), the same scene slightly and more changed, two
\* frames of little contrast on either side of VAR_MIN, and a frame without
\* light.  Each has a whole-numbered norm.
FrameImages ==
  { <<5, 12>>, <<39, 80>>, <<8, 15>>, <<20, 21>>, <<65, 72>>, <<0, 0>> }

\* captureFrame() answering null
NoFrame == << >>

\* no signature yet (prevSig null)
NoSig == [vec |-> << >>, norm |-> 1]

\* the similarity 0 of a frame that has no predecessor
ZeroSim == [num |-> 0, den |-> 1]

\* the starts of the capture view's detection loops
Mounts == 1..MaxMounts

\* what the stability loop found on the last frame it evaluated
NoEval ==
  [presence |-> FALSE, hadPrev |-> FALSE, sim |-> ZeroSim, before |-> 0,
   wasPresent |-> FALSE, needed |-> 0, triggered |-> FALSE]

\* a stability loop that has not been started
NoLoop ==
  [pc |-> "unmounted", cancelled |-> FALSE, first |-> FALSE, due |-> 0, now |-> 0,
   blob |-> NoFrame, prevSig |-> NoSig, stableCount |-> 0, lastAutoAt |-> 0,
   prevPresence |-> FALSE, entering |-> FALSE, frames |-> 0, streak |-> 0,
   ev |-> NoEval]

\* a stability loop that was cancelled and has no timer or frame left: nothing
\* refers to its locals any more
GoneLoop == [NoLoop EXCEPT !.pc = "ended", !.cancelled = TRUE]

\* a face-detection loop that has not been started
NoDet ==
  [pc |-> "unmounted", cancelled |-> FALSE, left |-> FALSE, ready |-> FALSE,
   detectRunning |-> FALSE, stable |-> 0, detecting |-> 0, capturing |-> 0,
   skipped |-> FALSE]

VARIABLES
  clock,     \* wall clock, in ticks
  enrolled,  \* collection enrolled_users of the record store
  logs,      \* collection attendance_logs of the record store, in creation order
  cache,     \* module-level candidate index: [isNull, items]
  resp,      \* what the last markAttendance or enrollUser call returned
  call,      \* what the last markAttendance or enrollUser call observed
  building,  \* module-level flag of the candidate index: a build is in flight
  cacheId,   \* identity of the array object cache refers to (0 before the first)
  tasks,     \* the calls into the candidate index: position, locals, result
  cleared,   \* the last clearCandidateIndex call: [done, users in the store then]
  wall,      \* time since the page was loaded, in timer intervals
  loops,     \* the stability loops the capture view has started: their locals
  dets,      \* the face-detection loops the capture view has started
  emitted,   \* the onCapture calls and pending confirmations, in order
  removed,   \* userIds whose deleteUser has completed, not enrolled again since
  marks,     \* the markAttendance invocations that run overlapped
  overlay    \* the confirmation overlay of the capture view: state pending

vars == <<clock, enrolled, logs, cache, resp, call, building, cacheId, tasks,
          cleared, wall, loops, dets, emitted, removed, marks, overlay>>

\* the state of the candidate index that the sequential operations leave alone
index == <<building, cacheId, tasks, cleared>>

\* the state of the capture view, which the services leave alone
view == <<wall, loops, dets, emitted>>

\* what the operations of the earlier sections leave alone
desk == <<removed, marks, overlay>>

\* ----------------------------------------------------------------- helpers
Max(a, b) == IF a >= b THEN a ELSE b
Min(a, b) == IF a <= b THEN a ELSE b

\* Math.sqrt on the sums of squares the model produces (all perfect squares).
Sqrt(n) == CHOOSE r \in 0..n : r * r = n

\* Math.round(x / 60000) for a span of x >= 0 milliseconds: floor(x/60000 + 1/2).
RoundMinutes(ticks) == (2 * ticks + TicksPerMinute) \div (2 * TicksPerMinute)

RECURSIVE SumSqDiff(_, _, _)
SumSqDiff(a, b, n) ==
  IF n = 0 THEN 0
  ELSE SumSqDiff(a, b, n - 1) + (a[n] - b[n]) * (a[n] - b[n])

\* faceEmbed.ts euclidean
euclidean(a, b) == Sqrt(SumSqDiff(a, b, Min(Len(a), Len(b))))

RECURSIVE Dot(_, _, _)
Dot(a, b, n) == IF n = 0 THEN 0 ELSE Dot(a, b, n - 1) + a[n] * b[n]

\* sigService cosineSim: the dot product of two normalised vectors
cosineSim(a, b) == Dot(a, b, Len(a))

\* Date.setHours(0,0,0,0) and Date.setHours(23,59,59,999) of an instant
StartOfDay(t) == (t \div DayLen) * DayLen
EndOfDay(t) == StartOfDay(t) + DayLen - 1

\* variant: no early return for a missing time, "" parses to 0:00
toTodayDate_Midnight(hhmm, now) ==
  IF hhmm = NoVec THEN StartOfDay(now)
  ELSE StartOfDay(now) + (hhmm[1] * 60 + hhmm[2]) * TicksPerMinute

\* toTodayDate: today's date at HH:mm, undefined (-1) when no time is set
toTodayDate(hhmm, now) ==
  IF hhmm = NoVec THEN -1
  ELSE StartOfDay(now) + (hhmm[1] * 60 + hhmm[2]) * TicksPerMinute

\* ------------------------------------------------------------ record store
\* getFullList({sort: '+userId'}) of enrolled_users
RECURSIVE SortedByUserId(_, _)
SortedByUserId(recs, i) ==
  IF i > Len(UserIds) THEN << >>
  ELSE LET here == {r \in recs : r.userId = UserIds[i]}
       IN (IF here = {} THEN << >> ELSE << CHOOSE r \in here : TRUE >>)
          \o SortedByUserId(recs, i + 1)

listEnrolledUsers(recs) == SortedByUserId(recs, 1)
listAllEnrolledRecords(recs) == SortedByUserId(recs, 1)

findEnrolledByUserId(recs, userId) ==
  IF \E r \in recs : r.userId = userId
  THEN CHOOSE r \in recs : r.userId = userId
  ELSE NoRec

\* The ids the store gives to the records created for one userId, in turn.
RecIdsOf(userId) ==
  IF userId = "u1" THEN <<"u1", "u1_2", "u1_3", "u1_4">>
                   ELSE <<"u2", "u2_2", "u2_3", "u2_4">>

\* createEnrolledUser: the record the store creates, under an id not in use
createEnrolledUser(recs, userId, opts, image) ==
  LET ids == RecIdsOf(userId)
      free == {i \in 1..Len(ids) : \A r \in recs : r.id # ids[i]}
      first == CHOOSE i \in free : \A j \in free : i <= j
  IN [EnrolledRec(userId, opts, image) EXCEPT !.id = ids[first]]

\* listLogsForUserOnDate: the events of one identity created on the day of date,
\* by creation time (logs is kept in creation order, created never decreases)
listLogsForUserOnDate(ls, userRecordId, date) ==
  SelectSeq(ls, LAMBDA l : /\ l.user = userRecordId
                           /\ l.created >= StartOfDay(date)
                           /\ l.created <= EndOfDay(date))

\* variant: a record without a check type is stored as an IN
logAttendance_DefaultCheckType(userRecord, result, similarity, checkType, status, scheduledStart, scheduledEnd, eventTime, created) ==
  [user |-> userRecord.id, result |-> result, similarity |-> similarity,
   checkType |-> IF checkType = "" THEN "IN" ELSE checkType, status |-> status,
   scheduledStart |-> scheduledStart, scheduledEnd |-> scheduledEnd,
   eventTime |-> eventTime, created |-> created]

\* logAttendance: the record created in attendance_logs
\* (created is stamped by the store; a call runs within one tick of the clock)
logAttendance(userRecord, result, similarity, checkType, status, scheduledStart, scheduledEnd, eventTime, created) ==
  [user |-> userRecord.id, result |-> result, similarity |-> similarity,
   checkType |-> checkType, status |-> status,
   scheduledStart |-> scheduledStart, scheduledEnd |-> scheduledEnd,
   eventTime |-> eventTime, created |-> created]

\* fetch(imageUrl): the stored file while its record exists; once the record is
\* deleted the request is answered from the HTTP cache or fails
FetchOk(recs, url, httpCached) ==
  (\E r \in recs : r.id = url /\ r.image) \/ httpCached

\* faceDescriptorFromBlob of a fetched reference image, << >> when unavailable
RefDescriptor(recs, url, httpCached) ==
  IF FetchOk(recs, url, httpCached) THEN RefImage(url).desc ELSE NoVec

\* --------------------------------------------------------- candidate index
NullCache == [isNull |-> TRUE, items |-> << >>]

RECURSIVE CandidateItems(_, _)
CandidateItems(records, i) ==
  IF i > Len(records) THEN << >>
  ELSE (IF records[i].image
        THEN << [recId |-> records[i].id, userId |-> records[i].userId,
                 imageUrl |-> records[i].id, sig |-> NoVec] >>
        ELSE << >>)
       \o CandidateItems(records, i + 1)

\* buildCandidateIndex, run to completion: the cache it leaves behind
buildCandidateIndex(recs) ==
  [isNull |-> FALSE, items |-> CandidateItems(listAllEnrolledRecords(recs), 1)]

\* variant: no signature is computed
ensureSigsForAll_None(items, recs, httpCached) == items

\* ensureSigsForAll: fill in the signatures that are missing and can be fetched
ensureSigsForAll(items, recs, httpCached) ==
  [i \in 1..Len(items) |->
     IF items[i].sig = NoVec /\ FetchOk(recs, items[i].imageUrl, httpCached)
     THEN [items[i] EXCEPT !.sig = RefImage(items[i].imageUrl).sig]
     ELSE items[i]]

\* variant: an unstable sort, an element goes in front of its equals
RECURSIVE InsertByScore_Unstable(_, _)
InsertByScore_Unstable(sorted, x) ==
  IF sorted = << >> THEN << x >>
  ELSE IF Head(sorted).s > x.s
       THEN << Head(sorted) >> \o InsertByScore_Unstable(Tail(sorted), x)
       ELSE << x >> \o sorted

\* Array.prototype.sort((a,b) => b.s - a.s): stable, by score, descending
RECURSIVE InsertByScore(_, _)
InsertByScore(sorted, x) ==
  IF sorted = << >> THEN << x >>
  ELSE IF Head(sorted).s >= x.s
       THEN << Head(sorted) >> \o InsertByScore(Tail(sorted), x)
       ELSE << x >> \o sorted

RECURSIVE SortByScore(_, _)
SortByScore(scored, n) ==
  IF n = 0 THEN << >> ELSE InsertByScore(SortByScore(scored, n - 1), scored[n])

\* cache.map(c => ({ c, s: c.sig ? cosineSim(querySig, c.sig) : -1 }))
Scored(items, querySig) ==
  [i \in 1..Len(items) |->
     [c |-> items[i],
      s |-> IF items[i].sig # NoVec THEN cosineSim(querySig, items[i].sig)
                                    ELSE 0 - SigScale * SigScale]]

\* variant: the whole ranking is returned, k is ignored
TopK_All(sorted, k) == [i \in 1..Len(sorted) |-> sorted[i].c]

\* scored.slice(0, Math.min(k, scored.length)).map(x => x.c)
TopK(sorted, k) == [i \in 1..Min(k, Len(sorted)) |-> sorted[i].c]

\* the ranking shortlistByBlob returns for the cache as it stands
Ranking(items, querySig, k) ==
  LET scored == Scored(items, querySig)
  IN TopK(SortByScore(scored, Len(scored)), k)

\* shortlistByBlob run to completion: the cache it leaves behind and the list
\* it returns
shortlistByBlob(c, recs, blob, k, httpCached) ==
  LET c1 == IF c.isNull THEN buildCandidateIndex(recs) ELSE c
  IN IF Len(c1.items) = 0 THEN [cache |-> c1, list |-> << >>]
     ELSE LET items == ensureSigsForAll(c1.items, recs, httpCached)
          IN [cache |-> [isNull |-> FALSE, items |-> items],
              list |-> Ranking(items, blob.sig, k)]

\* ---------------------------------------------------------------- matching
INF == -1   \* Number.POSITIVE_INFINITY

\* variant: the loop keeps the last of the nearest candidates (d <= bestDist)
RECURSIVE EvalCandidates_LastWins(_, _, _, _)
EvalCandidates_LastWins(candidates, n, liveDesc, descs) ==
  IF n = 0 THEN [bestDist |-> INF, bestUserId |-> "NO_MATCH"]
  ELSE LET prev == EvalCandidates_LastWins(candidates, n - 1, liveDesc, descs)
           desc == descs[n]
       IN IF desc = NoVec THEN prev
          ELSE LET d == euclidean(liveDesc, desc)
               IN IF prev.bestDist = INF \/ d <= prev.bestDist
                  THEN [bestDist |-> d, bestUserId |-> candidates[n].userId]
                  ELSE prev

\* the loop over the candidates: best distance and identity so far
RECURSIVE EvalCandidates(_, _, _, _)
EvalCandidates(candidates, n, liveDesc, descs) ==
  IF n = 0 THEN [bestDist |-> INF, bestUserId |-> "NO_MATCH"]
  ELSE LET prev == EvalCandidates(candidates, n - 1, liveDesc, descs)
           desc == descs[n]
       IN IF desc = NoVec THEN prev
          ELSE LET d == euclidean(liveDesc, desc)
               IN IF prev.bestDist = INF \/ d < prev.bestDist
                  THEN [bestDist |-> d, bestUserId |-> candidates[n].userId]
                  ELSE prev

\* variant: a distance equal to the threshold does not match
WithinThreshold_Strict(best) == best.bestUserId # "NO_MATCH" /\ best.bestDist < THRESH

\* markAttendance, the match decision on the best candidate
WithinThreshold(best) == best.bestUserId # "NO_MATCH" /\ best.bestDist <= THRESH

\* variant: the probe's descriptor is extracted before the candidates are looked at
Stage_FaceFirst(users, candidates, liveDesc) ==
  IF liveDesc = NoVec THEN "NO_FACE"
  ELSE IF Len(users) = 0 THEN "NO_USERS"
  ELSE IF Len(candidates) = 0 THEN "NO_CANDIDATES"
  ELSE "VERDICT"

\* markAttendance, how far a call gets before it answers: the early returns on
\* an empty population and an empty candidate list come before the extraction
\* of the probe's descriptor
Stage(users, candidates, liveDesc) ==
  IF Len(users) = 0 THEN "NO_USERS"
  ELSE IF Len(candidates) = 0 THEN "NO_CANDIDATES"
  ELSE IF liveDesc = NoVec THEN "NO_FACE"
  ELSE "VERDICT"

\* Math.max(0, 1 - bestDist), 0 when nothing was compared
Similarity(bestDist) == IF bestDist = INF THEN 0 ELSE Max(0, 10 - bestDist)

\* the candidates after the hint has been applied
ApplyHint(candidates, recs, hintUserId) ==
  IF hintUserId = "" THEN candidates
  ELSE IF \E i \in 1..Len(candidates) : candidates[i].userId = hintUserId
       THEN << candidates[CHOOSE i \in 1..Len(candidates) :
                  /\ candidates[i].userId = hintUserId
                  /\ \A j \in 1..(i - 1) : candidates[j].userId # hintUserId] >>
       ELSE LET rec == findEnrolledByUserId(recs, hintUserId)
            IN IF rec # NoRec /\ rec.image
               THEN << [recId |-> rec.id, userId |-> hintUserId,
                        imageUrl |-> rec.id, sig |-> NoVec] >>
               ELSE candidates

\* ------------------------------------------------------- attendance ledger
IsSuccess(l) == l.result = "SUCCESS"

\* markAttendance, IN/OUT decision: the check type, or the policy rejection
\* (logsFail: listLogsForUserOnDate throws and the catch swallows it)
DecideCheckType(ls, userRecordId, now, logsFail) ==
  IF logsFail THEN [reason |-> "", checkType |-> "IN"]
  ELSE LET todays == listLogsForUserOnDate(ls, userRecordId, now)
           successOnly == SelectSeq(todays, IsSuccess)
       IN IF Len(successOnly) >= 2
          THEN [reason |-> "DAY_COMPLETED", checkType |-> ""]
          ELSE LET checkType == IF Len(successOnly) % 2 = 0 THEN "IN" ELSE "OUT"
               IN IF /\ Len(successOnly) > 0
                     /\ now - successOnly[Len(successOnly)].created < MIN_GAP_MS
                  THEN [reason |-> "TOO_SOON", checkType |-> ""]
                  ELSE [reason |-> "", checkType |-> checkType]

\* variant: late from the end of the grace period on (now >= latestOnTime)
DetermineStatus_LateAtGrace(checkType, now, scheduledStart, scheduledEnd, grace) ==
  LET graceMs == grace * TicksPerMinute
      latestOnTime == scheduledStart + graceMs
      late == checkType = "IN" /\ scheduledStart # -1 /\ now >= latestOnTime
      early == checkType = "OUT" /\ scheduledEnd # -1 /\ now < scheduledEnd
  IN [status |-> IF early THEN "EARLY" ELSE IF late THEN "LATE" ELSE "ON_TIME",
      lateMinutes |-> IF late THEN RoundMinutes(now - latestOnTime) ELSE 0]

\* variant: early up to and including the scheduled end (now <= scheduledEnd)
DetermineStatus_EarlyAtEnd(checkType, now, scheduledStart, scheduledEnd, grace) ==
  LET graceMs == grace * TicksPerMinute
      latestOnTime == scheduledStart + graceMs
      late == checkType = "IN" /\ scheduledStart # -1 /\ now > latestOnTime
      early == checkType = "OUT" /\ scheduledEnd # -1 /\ now <= scheduledEnd
  IN [status |-> IF early THEN "EARLY" ELSE IF late THEN "LATE" ELSE "ON_TIME",
      lateMinutes |-> IF late THEN RoundMinutes(now - latestOnTime) ELSE 0]

\* variant: the minutes past the grace period are reported for every event
DetermineStatus_AlwaysMinutes(checkType, now, scheduledStart, scheduledEnd, grace) ==
  LET graceMs == grace * TicksPerMinute
      latestOnTime == scheduledStart + graceMs
      late == checkType = "IN" /\ scheduledStart # -1 /\ now > latestOnTime
      early == checkType = "OUT" /\ scheduledEnd # -1 /\ now < scheduledEnd
  IN [status |-> IF early THEN "EARLY" ELSE IF late THEN "LATE" ELSE "ON_TIME",
      lateMinutes |-> RoundMinutes(now - latestOnTime)]

\* markAttendance, status determination
DetermineStatus(checkType, now, scheduledStart, scheduledEnd, grace) ==
  LET graceMs == grace * TicksPerMinute
      latestOnTime == scheduledStart + graceMs
      late == checkType = "IN" /\ scheduledStart # -1 /\ now > latestOnTime
      early == checkType = "OUT" /\ scheduledEnd # -1 /\ now < scheduledEnd
  IN [status |-> IF early THEN "EARLY" ELSE IF late THEN "LATE" ELSE "ON_TIME",
      lateMinutes |-> IF late THEN RoundMinutes(now - latestOnTime) ELSE 0]

\* variant: a photo without a usable face is reported as one with several
Failure_ManyFaces(reason, similarity) ==
  [ok |-> FALSE, reason |-> IF reason = "NO_FACE" THEN "MULTIPLE_FACES" ELSE reason,
   user_id |-> "", similarity |-> similarity,
   checkType |-> "", status |-> "", lateMinutes |-> -1]

Failure(reason, similarity) ==
  [ok |-> FALSE, reason |-> reason, user_id |-> "", similarity |-> similarity,
   checkType |-> "", status |-> "", lateMinutes |-> -1]

NoResp == Failure("", -1)

NoCall == [img |-> [desc |-> NoVec, sig |-> NoVec], hint |-> "", logsFail |-> FALSE,
           stage |-> "", users |-> {}, cands |-> << >>, descs |-> << >>,
           rec |-> NoRec, now |-> -1, logged |-> FALSE,
           short |-> << >>, imaged |-> {}]

\* markAttendance(image, hintUserId) run to completion at instant now:
\* the cache it leaves, the attendance events it creates, what it returns,
\* and what it observed on the way.
\*   logsFail:   the read of today's events throws
\*   httpCached: the files of deleted records are still served from the HTTP cache
markAttendanceResult(recs, ls, c, now, image, hintUserId, logsFail, httpCached) ==
  LET users == listEnrolledUsers(recs)
      sl == shortlistByBlob(c, recs, image, SHORTLIST_K, httpCached)
      candidates == ApplyHint(sl.list, recs, hintUserId)
      liveDesc == image.desc
      descs == [i \in 1..Len(candidates) |->
                  RefDescriptor(recs, candidates[i].imageUrl, httpCached)]
      best == EvalCandidates(candidates, Len(candidates), liveDesc, descs)
      similarity == Similarity(best.bestDist)
      matchedRec == IF WithinThreshold(best)
                    THEN findEnrolledByUserId(recs, best.bestUserId)
                    ELSE NoRec
      scheduledStart == toTodayDate(matchedRec.shiftStart, now)
      scheduledEnd == toTodayDate(matchedRec.shiftEnd, now)
      decision == DecideCheckType(ls, matchedRec.id, now, logsFail)
      st == DetermineStatus(decision.checkType, now, scheduledStart, scheduledEnd,
                            matchedRec.graceMinutes)
      observed(stg, cs, ds, rec, failed, logged) ==
        [img |-> image, hint |-> hintUserId, logsFail |-> failed, stage |-> stg,
         users |-> {r.userId : r \in recs},
         cands |-> [i \in 1..Len(cs) |-> cs[i].userId], descs |-> ds, rec |-> rec,
         now |-> now, logged |-> logged,
         short |-> IF stg = "NO_USERS" THEN << >>
                   ELSE [i \in 1..Len(sl.list) |-> sl.list[i].userId],
         imaged |-> {r.userId : r \in {q \in recs : q.image}}]
      unmatched(result, sim) ==
        << logAttendance(NoRec, result, sim, "", "", -1, -1, -1, now) >>
      stage == Stage(users, candidates, liveDesc)
  IN IF stage = "NO_USERS"
     THEN [cache |-> c, events |-> unmatched("NO_MATCH", -1),
           resp |-> Failure("NO_MATCH", -1),
           call |-> observed("NO_USERS", << >>, << >>, NoRec, FALSE, TRUE)]
     ELSE IF stage = "NO_CANDIDATES"
     THEN [cache |-> sl.cache, events |-> unmatched("NO_MATCH", -1),
           resp |-> Failure("NO_MATCH", -1),
           call |-> observed("NO_CANDIDATES", << >>, << >>, NoRec, FALSE, TRUE)]
     ELSE IF stage = "NO_FACE"
     THEN [cache |-> sl.cache, events |-> unmatched("NO_FACE", -1),
           resp |-> Failure("NO_FACE", -1),
           call |-> observed("NO_FACE", candidates, << >>, NoRec, FALSE, TRUE)]
     ELSE IF matchedRec = NoRec
     THEN [cache |-> sl.cache, events |-> unmatched("NO_MATCH", similarity),
           resp |-> Failure("NO_MATCH", similarity),
           call |-> observed("VERDICT", candidates, descs, NoRec, FALSE, TRUE)]
     ELSE IF decision.reason # ""
     THEN [cache |-> sl.cache, events |-> << >>,
           resp |-> Failure(decision.reason, similarity),
           call |-> observed("VERDICT", candidates, descs, matchedRec, FALSE, FALSE)]
     ELSE [cache |-> sl.cache,
           events |-> << logAttendance(matchedRec, "SUCCESS", similarity,
                                       decision.checkType, st.status,
                                       scheduledStart, scheduledEnd, now, now) >>,
           resp |-> [ok |-> TRUE, reason |-> "", user_id |-> best.bestUserId,
                     similarity |-> similarity,
                     checkType |-> decision.checkType, status |-> st.status,
                     lateMinutes |-> st.lateMinutes],
           call |-> observed("VERDICT", candidates, descs, matchedRec, logsFail, TRUE)]

\* ----------------------------------------------------------------- actions
NoSchedule == CHOOSE q \in Profiles : q.shiftStart = NoVec /\ q.shiftEnd = NoVec

\* the markAttendance invocations that are followed step by step
Marks == 1..MaxMarks
\*   pc "write": awaiting logAttendance, with r what the invocation has decided
\*   seen: the events in the log when today's events were read
\*   wrote: the place in the log of the event the invocation created
NoMark == [pc |-> "idle", r |-> << >>, seen |-> 0, wrote |-> 0]

\* const [pending, setPending] = useState(null); countdown; the interval set
\*   pending: the place in emitted of the match that waits for confirmation
\*   interval: the countdown's setInterval is set
\*   gone: the parent has left capture mode and the view is unmounted
NoOverlay == [pending |-> 0, countdown |-> COUNTDOWN_INIT, interval |-> FALSE,
              gone |-> FALSE]

\* the stores and the module state when the kiosk page is loaded
InitWith(profiles1, images2) ==
  /\ clock = 0
  /\ \E p \in profiles1, img2 \in images2 :
       enrolled = {EnrolledRec("u1", p, TRUE), EnrolledRec("u2", NoSchedule, img2)}
  /\ logs = << >>
  /\ cache = NullCache
  /\ resp = NoResp
  /\ call = NoCall
  /\ building = FALSE
  /\ cacheId = 0
  /\ tasks = [t \in Callers |-> NoTask]
  /\ cleared = [done |-> FALSE, users |-> {}]
  /\ wall = 0
  /\ loops = [i \in Mounts |-> NoLoop]
  /\ dets = [i \in Mounts |-> NoDet]
  /\ emitted = << >>
  /\ removed = {}
  /\ marks = [m \in Marks |-> NoMark]
  /\ overlay = NoOverlay

\* time passes
Tick ==
  /\ clock < MaxTime
  /\ clock' = clock + 1
  /\ UNCHANGED <<enrolled, logs, cache, resp, call, index, view, desk>>

\* a minute passes
Wait ==
  /\ clock + TicksPerMinute <= MaxTime
  /\ clock' = clock + TicksPerMinute
  /\ UNCHANGED <<enrolled, logs, cache, resp, call, index, view, desk>>

\* variant: the events of a deleted identity are deleted with its record
deleteUser_WithEvents(userId) ==
  /\ LET rec == findEnrolledByUserId(enrolled, userId)
         kept(e) == e.user # rec.id
     IN /\ enrolled' = IF rec # NoRec THEN enrolled \ {rec} ELSE enrolled
        /\ logs' = IF rec # NoRec THEN SelectSeq(logs, kept) ELSE logs
  /\ removed' = removed \cup {userId}
  /\ UNCHANGED <<clock, cache, resp, call, index, view, marks, overlay>>

\* deleteUser / deleteEnrolledUserById
deleteUser(userId) ==
  /\ LET rec == findEnrolledByUserId(enrolled, userId)
     IN enrolled' = IF rec # NoRec THEN enrolled \ {rec} ELSE enrolled
  /\ removed' = removed \cup {userId}
  /\ UNCHANGED <<clock, logs, cache, resp, call, index, view, marks, overlay>>

\* buildCandidateIndex called by the capture view when detection starts
BuildIndex ==
  /\ cache' = buildCandidateIndex(enrolled)
  /\ UNCHANGED <<clock, enrolled, logs, resp, call, index, view, desk>>

\* an exception thrown to the caller instead of a response
Thrown == Failure("THROWN", -1)

\* enrollUser(data): the throw for an existing userId happens inside the try whose
\* catch is empty, so the call goes on to createEnrolledUser either way
enrollUser(userId, opts) ==
  /\ Cardinality(enrolled) < MaxRecords
  /\ call' = [NoCall EXCEPT !.stage = "ENROLL", !.hint = userId,
                            !.users = {r.userId : r \in enrolled}]
  /\ IF userId = ""
     THEN /\ resp' = Thrown
          /\ UNCHANGED enrolled
     ELSE /\ enrolled' = enrolled \cup {createEnrolledUser(enrolled, userId, opts, TRUE)}
          /\ resp' = [NoResp EXCEPT !.ok = TRUE, !.user_id = userId]
  /\ removed' = removed \ {userId}
  /\ UNCHANGED <<clock, logs, cache, index, view, marks, overlay>>

\* variant: the events of a call are stored twice
markAttendance_Twice(image, hintUserId, logsFail, httpCached, maxLog) ==
  \E r \in {markAttendanceResult(enrolled, logs, cache, clock, image, hintUserId,
                                 logsFail, httpCached)} :
    /\ Len(logs) + Len(r.events) <= maxLog
    /\ logs' = logs \o r.events \o r.events
    /\ cache' = r.cache
    /\ resp' = r.resp
    /\ call' = r.call
    /\ UNCHANGED <<clock, enrolled, index, view, desk>>

\* maxLog bounds the attendance log: a call that would grow it further is left out
markAttendance(image, hintUserId, logsFail, httpCached, maxLog) ==
  \E r \in {markAttendanceResult(enrolled, logs, cache, clock, image, hintUserId,
                                 logsFail, httpCached)} :
    /\ Len(logs) + Len(r.events) <= maxLog
    /\ logs' = logs \o r.events
    /\ cache' = r.cache
    /\ resp' = r.resp
    /\ call' = r.call
    /\ UNCHANGED <<clock, enrolled, index, view, desk>>

\* ------------------------------------------------------ the attendance ledger
\* The probes are photos that resolve to an enrolled identity.
ProbeOf(u) == [desc |-> RefImage(u).desc, sig |-> RefImage(u).sig]

InitLedger == InitWith(Profiles, {TRUE})

MarkLedger(ids, maxLog) ==
  \E u \in ids, logsFail \in BOOLEAN :
    markAttendance(ProbeOf(u), "", logsFail, FALSE, maxLog)

\* the days of all identities, with room for a third event of the day
MarkDay == MarkLedger(UserIdSet, MaxLog + 1)
NextLedger == Tick \/ MarkDay
SpecLedger == InitLedger /\ [][NextLedger]_vars

\* the events of one identity, under each of the shift settings
MarkStatus == MarkLedger({"u1"}, MaxLog)
NextStatus == Tick \/ MarkStatus
SpecStatus == InitLedger /\ [][NextStatus]_vars

\* the outcomes of one kiosk: photos of u1, of nobody enrolled, and of no face
OutcomeProbes ==
  { ProbeOf("u1"),
    [desc |-> <<20, 0>>, sig |-> <<4, 3>>],
    [desc |-> NoVec, sig |-> <<4, 3>>] }

MarkOutcome ==
  \E image \in OutcomeProbes, logsFail \in BOOLEAN :
    markAttendance(image, "", logsFail, FALSE, MaxLog)
NextOutcome == Wait \/ MarkOutcome
SpecOutcome == InitWith({NoSchedule}, {TRUE}) /\ [][NextOutcome]_vars

\* ------------------------------------------------ the ledger over midnight
NightEnd == (MaxDays + MaxNights) * DayLen - 1

\* time passes, past midnight too
TickNight ==
  /\ clock < NightEnd
  /\ clock' = clock + 1
  /\ UNCHANGED <<enrolled, logs, cache, resp, call, index, view, desk>>

\* the attempts of one identity; every read of the day's events succeeds
MarkNight == markAttendance(ProbeOf("u1"), "", FALSE, FALSE, MaxLog + 1)
NextNight == TickNight \/ MarkNight
SpecNight == InitWith({NoSchedule}, {TRUE}) /\ [][NextNight]_vars

\* ------------------------------------------- markAttendance, overlapped
\* markAttendance from its entry to the call of logAttendance: the identities,
\* the shortlist and today's events are read, the outcome is decided
MarkRead(m, image) ==
  /\ marks[m].pc = "idle"
  /\ \E r \in {markAttendanceResult(enrolled, logs, cache, clock, image, "",
                                     FALSE, FALSE)} :
       /\ cache' = r.cache
       /\ marks' = [marks EXCEPT ![m] = [pc |-> "write", r |-> <<r>>,
                                         seen |-> Len(logs), wrote |-> 0]]
  /\ UNCHANGED <<clock, enrolled, logs, resp, call, index, view, removed, overlay>>

\* logAttendance completes, at the store's time, and markAttendance returns
MarkWrite(m) ==
  /\ marks[m].pc = "write"
  /\ LET r == marks[m].r[1]
     IN /\ logs' = logs \o [i \in 1..Len(r.events) |->
                              [r.events[i] EXCEPT !.created = clock]]
        /\ resp' = r.resp
        /\ call' = r.call
  /\ marks' = [marks EXCEPT ![m].pc = "done", ![m].wrote = Len(logs')]
  /\ UNCHANGED <<clock, enrolled, cache, index, view, removed, overlay>>

NextOverlap ==
  \/ Tick
  \/ \E m \in Marks : MarkRead(m, ProbeOf("u1"))
  \/ \E m \in Marks : MarkWrite(m)

SpecOverlap == InitWith({NoSchedule}, {TRUE}) /\ [][NextOverlap]_vars

\* ----------------------------------------------------------- the matcher
InitMatch == InitWith({NoSchedule}, BOOLEAN)

\* a file is answered from the HTTP cache only once its record is gone
Stale ==
  \E i \in 1..Len(cache.items) : \A r \in enrolled : r.id # cache.items[i].imageUrl

MarkMatch ==
  \E image \in Probes, hintUserId \in {""} \cup UserIdSet,
     httpCached \in (IF Stale THEN BOOLEAN ELSE {FALSE}) :
    markAttendance(image, hintUserId, FALSE, httpCached, MaxMatchLog)

NextMatch ==
  \/ \E u \in UserIdSet : deleteUser(u)
  \/ BuildIndex
  \/ MarkMatch

SpecMatch == InitMatch /\ [][NextMatch]_vars

\* ------------------------------------------------------------ enrollment
NextEnroll ==
  \/ \E userId \in {""} \cup UserIdSet, opts \in Profiles : enrollUser(userId, opts)
  \/ \E u \in UserIdSet : deleteUser(u)
SpecEnroll == InitMatch /\ [][NextEnroll]_vars

\* ----------------------------------------------- the candidate index, shared
\* The calls into the index suspend at their awaits and interleave there; what
\* runs between two awaits runs alone.
\*   pc "build":  inside buildCandidateIndex, awaiting listAllEnrolledRecords
\*   pc "build2": the same, called from ensureSigsForAll
\*   pc "sig":    shortlistByBlob awaiting blobToSigVector of the probe
\*   pc "fill":   ensureSigsForAll awaiting the signatures of the candidates
IndexSigs == {<<4, 3>>, <<0, 0>>}     \* <<0, 0>>: an image without light
ShortlistKs == {1, SHORTLIST_K}

InFlight == {t \in Callers : tasks[t].pc \in {"build", "build2"}}

\* variant: the flag is not looked at
AlreadyBuilding_Never(flag) == FALSE

\* buildCandidateIndex, the test on entry: if (building) return cache || []
AlreadyBuilding(flag) == flag

\* the record of call t becomes upd
Set(t, upd) == tasks' = [tasks EXCEPT ![t] = upd]

Returned(task, list) == [task EXCEPT !.pc = "done", !.ret = list, !.out = "ok"]
Faulted(task) == [task EXCEPT !.pc = "done", !.out = "fault"]

Entered(t, op, blob, k) ==
  [tasks[t] EXCEPT !.op = op, !.blob = blob, !.k = k,
                   !.users = {r.userId : r \in enrolled},
                   !.imaged = {r.userId : r \in {q \in enrolled : q.image}},
                   !.after = cleared.done, !.afterUsers = cleared.users]

\* the call whose build is in flight when another call arrives
Joined(task) ==
  [task EXCEPT !.joined = IF InFlight = {} THEN 0 ELSE CHOOSE b \in InFlight : TRUE]

\* buildCandidateIndex() is called, up to its await
CallBuild(t) ==
  /\ tasks[t].pc = "idle"
  /\ IF AlreadyBuilding(building)
     THEN /\ Set(t, Returned(Joined(Entered(t, "build", NoVec, 0)), cache.items))
          /\ UNCHANGED building
     ELSE /\ building' = TRUE
          /\ Set(t, [Entered(t, "build", NoVec, 0) EXCEPT !.pc = "build"])
  /\ UNCHANGED <<clock, enrolled, logs, cache, resp, call, cacheId, cleared, view, desk>>

\* shortlistByBlob(blob, k) is called, up to its first await
CallShortlist(t, blob, k) ==
  /\ tasks[t].pc = "idle"
  /\ LET task == Entered(t, "shortlist", blob, k)
     IN IF cache.isNull
        THEN IF AlreadyBuilding(building)
             THEN /\ Set(t, Returned(Joined(task), << >>))
                  /\ UNCHANGED building
             ELSE /\ building' = TRUE
                  /\ Set(t, [task EXCEPT !.pc = "build"])
        ELSE /\ IF Len(cache.items) = 0
                THEN Set(t, Returned(task, << >>))
                ELSE Set(t, [task EXCEPT !.pc = "sig"])
             /\ UNCHANGED building
  /\ UNCHANGED <<clock, enrolled, logs, cache, resp, call, cacheId, cleared, view, desk>>

\* the record store reads the list for listAllEnrolledRecords; the answer is
\* on its way
StoreRead(t) ==
  /\ tasks[t].pc \in {"build", "build2"}
  /\ ~tasks[t].hasFetched
  /\ Set(t, [tasks[t] EXCEPT !.fetched = enrolled, !.hasFetched = TRUE])
  /\ UNCHANGED <<clock, enrolled, logs, cache, resp, call, building, cacheId,
                 cleared, view, desk>>

\* clearCandidateIndex()
Clear ==
  /\ cache' = NullCache
  /\ cleared' = [done |-> TRUE, users |-> {r.userId : r \in enrolled}]
  /\ UNCHANGED <<clock, enrolled, logs, resp, call, building, cacheId, tasks, view, desk>>

\* listAllEnrolledRecords answers, with the list read on the way or read now:
\* buildCandidateIndex stores the new array, clears the flag and returns; its
\* caller runs on to its next await
BuildReturn(t) ==
  /\ tasks[t].pc \in {"build", "build2"}
  /\ LET records == IF tasks[t].hasFetched THEN tasks[t].fetched ELSE enrolled
         built == buildCandidateIndex(records)
         task == [tasks[t] EXCEPT !.built = built.items, !.hasBuilt = TRUE,
                                  !.fetched = {}, !.hasFetched = FALSE]
     IN /\ cache' = built
        /\ cacheId' = cacheId + 1
        /\ building' = FALSE
        /\ IF task.pc = "build2"
           THEN Set(t, [task EXCEPT !.pc = "fill", !.snap = cacheId + 1])
           ELSE IF task.op = "build"
           THEN Set(t, Returned(task, built.items))
           ELSE IF Len(built.items) = 0
           THEN Set(t, Returned(task, << >>))
           ELSE Set(t, [task EXCEPT !.pc = "sig"])
  /\ UNCHANGED <<clock, enrolled, logs, resp, call, cleared, view, desk>>

\* blobToSigVector answers: shortlistByBlob enters ensureSigsForAll, which
\* starts the fetches for the candidates of the array cache refers to now
SigReturn(t) ==
  /\ tasks[t].pc = "sig"
  /\ IF cache.isNull
     THEN IF AlreadyBuilding(building)
          THEN /\ Set(t, Faulted(Joined(tasks[t])))
               /\ UNCHANGED building
          ELSE /\ building' = TRUE
               /\ Set(t, [tasks[t] EXCEPT !.pc = "build2"])
     ELSE /\ Set(t, [tasks[t] EXCEPT !.pc = "fill", !.snap = cacheId])
          /\ UNCHANGED building
  /\ UNCHANGED <<clock, enrolled, logs, cache, resp, call, cacheId, cleared, view, desk>>

\* the fetches have all settled: the signatures obtained are written into the
\* candidates of the array they were started for, then shortlistByBlob ranks
\* the candidates of the array cache refers to now
FillReturn(t, httpCached) ==
  /\ tasks[t].pc = "fill"
  /\ LET same == ~cache.isNull /\ tasks[t].snap = cacheId
         items == IF same THEN ensureSigsForAll(cache.items, enrolled, httpCached)
                          ELSE cache.items
     IN /\ cache' = [cache EXCEPT !.items = items]
        /\ IF cache.isNull
           THEN Set(t, Faulted(tasks[t]))
           ELSE Set(t, Returned(
                  [tasks[t] EXCEPT
                     !.ranked = items, !.hasRanked = TRUE, !.raced = ~same,
                     !.failed = {items[i].recId : i \in
                                  {j \in 1..Len(items) :
                                     ~FetchOk(enrolled, items[j].imageUrl, httpCached)}}],
                  Ranking(items, tasks[t].blob, tasks[t].k)))
  /\ UNCHANGED <<clock, enrolled, logs, resp, call, building, cacheId, cleared, view, desk>>

NextIndex ==
  \/ \E u \in UserIdSet : deleteUser(u)
  \/ \E t \in Callers : CallBuild(t)
  \/ \E t \in Callers, blob \in IndexSigs, k \in ShortlistKs : CallShortlist(t, blob, k)
  \/ \E t \in Callers : BuildReturn(t)
  \/ \E t \in Callers : SigReturn(t)
  \/ \E t \in Callers, httpCached \in (IF Stale THEN BOOLEAN ELSE {FALSE}) :
       FillReturn(t, httpCached)

SpecIndex == InitMatch /\ [][NextIndex]_vars

\* the index with invalidations, and with answers of the store that take time
NextInvalidate ==
  \/ \E u \in UserIdSet : deleteUser(u)
  \/ Clear
  \/ \E t \in Callers : CallBuild(t)
  \/ \E t \in Callers : CallShortlist(t, <<4, 3>>, SHORTLIST_K)
  \/ \E t \in Callers : StoreRead(t)
  \/ \E t \in Callers : BuildReturn(t)
  \/ \E t \in Callers : SigReturn(t)
  \/ \E t \in Callers : FillReturn(t, FALSE)

SpecInvalidate == InitMatch /\ [][NextInvalidate]_vars

\* ------------------------------------------- all operations on the stores
MarkStore ==
  \E image \in {ProbeOf("u1"), [desc |-> NoVec, sig |-> <<4, 3>>]} :
    markAttendance(image, "", FALSE, FALSE, MaxLog)

NextStore ==
  \/ MarkStore
  \/ enrollUser("u1", NoSchedule)
  \/ deleteUser("u1")
  \/ BuildIndex

SpecStore == InitWith({NoSchedule}, {TRUE}) /\ [][NextStore]_vars

\* ------------------------------------------------- photos of several faces
\* A face in a photo: its descriptor, the detector's score for it (Weak: only
\* detectAllFaces at its low threshold reports it) and the area of its box.
Weak == "weak"
Face(u, score, area) == [desc |-> RefImage(u).desc, score |-> score, area |-> area]

Photos ==
  { << >>,
    << Face("u1", "strong", 1) >>,
    << Face("u1", "strong", 1), Face("u2", "strong", 2) >>,
    << Face("u1", Weak, 1), Face("u2", Weak, 2) >>,
    << Face("u2", Weak, 2), Face("u1", "strong", 1) >> }

\* detectSingleFace: the first face the single-face detectors report, 0 if none
detectSingleFace(faces) ==
  LET found == {i \in 1..Len(faces) : faces[i].score # Weak}
  IN IF found = {} THEN 0 ELSE CHOOSE i \in found : \A j \in found : i <= j

\* detectAllFaces sorted by box area, largest first: the face at the head
largestFace(faces) ==
  CHOOSE i \in 1..Len(faces) :
    \A j \in 1..Len(faces) :
      faces[j].area < faces[i].area \/ (faces[j].area = faces[i].area /\ i <= j)

\* faceDescriptorFromBlob: the descriptor of one face of the photo, or null
faceDescriptorFromBlob(faces) ==
  IF Len(faces) = 0 THEN NoVec
  ELSE IF detectSingleFace(faces) # 0 THEN faces[detectSingleFace(faces)].desc
  ELSE faces[largestFace(faces)].desc

\* the probe markAttendance makes of a photo; faces is kept for the record
PhotoProbe(faces) ==
  [desc |-> faceDescriptorFromBlob(faces), sig |-> <<4, 3>>, faces |-> Len(faces)]

MarkPhoto ==
  \E faces \in Photos : markAttendance(PhotoProbe(faces), "", FALSE, FALSE, MaxLog)
NextFaces == Wait \/ MarkPhoto
SpecFaces == InitWith({NoSchedule}, {TRUE}) /\ [][NextFaces]_vars

\* ------------------------------------------- capture view: stability loop
\* the services' state, which the capture view's loops leave alone
services == <<clock, enrolled, logs, cache, resp, call, index>>

RECURSIVE Sum(_, _)
Sum(v, n) == IF n = 0 THEN 0 ELSE Sum(v, n - 1) + v[n]

\* sigService canvasToSigVector: the gray levels divided by their norm, the
\* norm of a frame without light being replaced by 1
canvasToSigVector(gray) ==
  LET root == Sqrt(Dot(gray, gray, Len(gray)))
  IN [vec |-> gray, norm |-> IF root = 0 THEN 1 ELSE root]

\* sigService cosineSim of two signatures: the dot product of the quotients
cosineSimFrac(a, b) ==
  [num |-> Dot(a.vec, b.vec, Len(a.vec)), den |-> a.norm * b.norm]

\* a similarity against a threshold given in thousandths
Below(sim, th) == 1000 * sim.num < th * sim.den
Above(sim, th) == 1000 * sim.num > th * sim.den
AtLeast(sim, th) == ~Below(sim, th)

\* tick: variance = 1 / length - mean * mean; hasPresence = variance >= VAR_MIN
hasPresence(sig) ==
  LET n == Len(sig.vec)
      sum == Sum(sig.vec, n)
  IN 1000 * (n * sig.norm * sig.norm - sum * sum) >= VAR_MIN * n * n * sig.norm * sig.norm

\* variant: similarity from the movement threshold on counts as stable
NextStableCount_FromMove(hadPrev, sim, stableCount) ==
  IF hadPrev /\ Below(sim, MOVE_SIM) THEN 0
  ELSE IF hadPrev /\ AtLeast(sim, MOVE_SIM) THEN stableCount + 1
  ELSE 0

\* tick: the update of stableCount by the similarity to the previous frame
NextStableCount(hadPrev, sim, stableCount) ==
  IF hadPrev /\ Below(sim, MOVE_SIM) THEN 0
  ELSE IF hadPrev /\ Above(sim, STABLE_SIM) THEN stableCount + 1
  ELSE 0

\* variant: the steady-state count is required also while entering
Needed_Steady(entering) == STABLE_FRAMES

\* tick: needed = entering ? ENTER_STABLE_FRAMES : STABLE_FRAMES
Needed(entering) == IF entering THEN ENTER_STABLE_FRAMES ELSE STABLE_FRAMES

\* Date.now() when the page has been loaded for wall intervals; lastAutoAt
\* starts at 0, which Date.now() is further from than COOLDOWN_MS
PageLoadedAt == COOLDOWN_MS
DateNow == PageLoadedAt + wall

\* a loop once it is over
Over(l) == IF l.pc = "ended" /\ l.cancelled THEN GoneLoop ELSE l

\* tick: setTimeout(tick, INTERVAL_MS)
Rescheduled(l) == [l EXCEPT !.pc = "timer", !.first = FALSE, !.due = wall + INTERVAL_MS]

\* variant: the loop goes on after a trigger and keeps no time of it
OnTrigger_Resumes(l) == Rescheduled([l EXCEPT !.prevPresence = TRUE])

\* tick, on a trigger: lastAutoAt = now; stopWebcam(); onCapture(blob); return
OnTrigger(l) == [l EXCEPT !.lastAutoAt = l.now, !.pc = "ended"]

\* variant: a frame without presence leaves entering as it is
NoPresence_KeepsEntering(l) ==
  [l EXCEPT !.stableCount = 0, !.prevPresence = FALSE]

\* tick, on a frame without presence
NoPresence(l) ==
  [l EXCEPT !.stableCount = 0, !.prevPresence = FALSE, !.entering = FALSE]

\* variant: entering lasts for the frame of the transition only
Entering_TransitionOnly(transition, entering) == transition

\* tick, on a frame with presence: if (hasPresence && !prevPresence) entering = true
Entering(transition, entering) == IF transition THEN TRUE ELSE entering

\* tick from the signature on: presence, entering, stableCount, trigger.
\* frames counts the frames evaluated and streak those in a row, up to this
\* one, that had presence and exceeded STABLE_SIM.
tickFrame(l, sig) ==
  LET presence == hasPresence(sig)
      hadPrev == l.prevSig # NoSig
      transition == presence /\ ~l.prevPresence
      entering == Entering(transition, l.entering)
      sim == IF hadPrev THEN cosineSimFrac(l.prevSig, sig) ELSE ZeroSim
      count == NextStableCount(hadPrev, sim, IF transition THEN 0 ELSE l.stableCount)
      needed == Needed(entering)
      triggered == presence /\ ((entering /\ AtLeast(sim, FAST_SIM)) \/ count >= needed)
      ev == [presence |-> presence, hadPrev |-> hadPrev, sim |-> sim,
             before |-> l.stableCount, wasPresent |-> l.prevPresence,
             needed |-> needed, triggered |-> triggered]
      streak == IF presence /\ hadPrev /\ Above(sim, STABLE_SIM)
                THEN l.streak + 1 ELSE 0
      seen == [l EXCEPT !.frames = l.frames + 1, !.streak = streak, !.ev = ev,
                        !.prevSig = sig]
  IN IF ~presence
     THEN Rescheduled(NoPresence(seen))
     ELSE IF triggered
     THEN OnTrigger([seen EXCEPT !.entering = entering, !.stableCount = count])
     ELSE Rescheduled([seen EXCEPT !.entering = entering, !.stableCount = count,
                                   !.prevPresence = presence])

\* the record of an onCapture call or of a pending confirmation
Emission(kind, i, frame, left) ==
  [kind |-> kind, inst |-> i, at |-> wall, frame |-> frame, left |-> left]

\* time passes; a timer that is due fires first
Pass ==
  /\ wall < MaxWall
  /\ \A i \in Mounts : loops[i].pc = "timer" => loops[i].due > wall
  /\ wall' = wall + 1
  /\ UNCHANGED <<services, desk, loops, dets, emitted>>

\* the effect runs: fresh locals, setTimeout(tick, 500)
Mount(i) ==
  /\ loops[i].pc = "unmounted"
  /\ i > 1 => loops[i - 1].cancelled
  /\ loops' = [loops EXCEPT ![i] =
                 [NoLoop EXCEPT !.pc = "timer", !.first = TRUE, !.due = wall + INTERVAL_MS]]
  /\ UNCHANGED <<services, desk, wall, dets, emitted>>

\* the effect's cleanup: cancelled = true; clearTimeout(id), id being the
\* timer the effect itself has set
StopLoop(i) ==
  /\ loops[i].pc # "unmounted"
  /\ ~loops[i].cancelled
  /\ loops' = [loops EXCEPT ![i] =
                 Over([@ EXCEPT !.cancelled = TRUE,
                                !.pc = IF @ = "timer" /\ loops[i].first
                                       THEN "ended" ELSE @])]
  /\ UNCHANGED <<services, desk, wall, dets, emitted>>

\* the timer fires: tick up to its first await
TickTimer(i) ==
  /\ loops[i].pc = "timer"
  /\ loops[i].due <= wall
  /\ loops' = [loops EXCEPT ![i] =
                 IF @.cancelled THEN Over([@ EXCEPT !.pc = "ended"])
                 ELSE IF DateNow - @.lastAutoAt < COOLDOWN_MS
                 THEN Rescheduled([@ EXCEPT !.now = DateNow])
                 ELSE [@ EXCEPT !.now = DateNow, !.pc = "capture"]]
  /\ UNCHANGED <<services, desk, wall, dets, emitted>>

\* captureFrame() answers
TickCaptured(i, blob) ==
  /\ loops[i].pc = "capture"
  /\ loops' = [loops EXCEPT ![i] =
                 IF blob = NoFrame THEN Rescheduled(@)
                 ELSE [@ EXCEPT !.pc = "sig", !.blob = blob]]
  /\ UNCHANGED <<services, desk, wall, dets, emitted>>

\* blobToSigVector(blob) answers, or rejects into the empty catch
TickSigned(i, ok) ==
  /\ loops[i].pc = "sig"
  /\ LET l == IF ok THEN tickFrame(loops[i], canvasToSigVector(loops[i].blob))
              ELSE Rescheduled(loops[i])
     IN /\ loops' = [loops EXCEPT ![i] = Over(l)]
        /\ emitted' = IF ok /\ l.ev.triggered
                      THEN Append(emitted, Emission("onCapture", i, l.frames,
                                                    loops[i].cancelled))
                      ELSE emitted
  /\ UNCHANGED <<services, desk, wall, dets>>

NextStability ==
  \/ Pass
  \/ \E i \in Mounts : Mount(i)
  \/ \E i \in Mounts : StopLoop(i)
  \/ \E i \in Mounts : TickTimer(i)
  \/ \E i \in Mounts, blob \in FrameImages \cup {NoFrame} : TickCaptured(i, blob)
  \/ \E i \in Mounts, ok \in BOOLEAN : TickSigned(i, ok)

SpecStability == InitWith({NoSchedule}, {TRUE}) /\ [][NextStability]_vars

\* -------------------------------------- capture view: face-detection loop
\* a face-detection loop whose cleanup has run and that has no detection left
GoneDet == [NoDet EXCEPT !.pc = "ended", !.cancelled = TRUE, !.left = TRUE]
OverDet(d) == IF d.left /\ d.detecting + d.capturing = 0 THEN GoneDet ELSE d

\* variant: the flag is not looked at
Busy_Never(detectRunning) == FALSE

\* run: if (detectRunning || !videoRef.current) return
Busy(detectRunning) == detectRunning

\* the effect runs: fresh locals, requestAnimationFrame(run)
StartDetect(i) ==
  /\ overlay.pending = 0 /\ ~overlay.gone
  /\ dets[i].pc = "unmounted"
  /\ i > 1 => dets[i - 1].left
  /\ dets' = [dets EXCEPT ![i] = [NoDet EXCEPT !.pc = "raf"]]
  /\ UNCHANGED <<services, desk, wall, loops, emitted>>

\* the effect's cleanup: cancelled = true; cancelAnimationFrame(raf)
LeaveDetect(i) ==
  /\ dets[i].pc # "unmounted"
  /\ ~dets[i].left
  /\ dets' = [dets EXCEPT ![i] =
                OverDet([@ EXCEPT !.cancelled = TRUE, !.left = TRUE, !.pc = "ended"])]
  /\ UNCHANGED <<services, desk, wall, loops, emitted>>

\* the animation frame arrives: run up to its first await.  A callback that
\* returns at the throttle changes nothing and is left out.
run(i) ==
  /\ dets[i].pc = "raf"
  /\ dets' = [dets EXCEPT ![i] =
                IF @.cancelled THEN [@ EXCEPT !.pc = "ended"]
                ELSE IF Busy(@.detectRunning) THEN [@ EXCEPT !.skipped = TRUE]
                ELSE [@ EXCEPT !.detectRunning = TRUE, !.detecting = @ + 1]]
  /\ dets'[i].detecting + dets'[i].capturing <= MaxJobs
  /\ UNCHANGED <<services, desk, wall, loops, emitted>>

\* the detection of a frame answers: "return" for the early returns and the
\* exceptions, "none" for no face or no candidate within THRESH, "match"
DetectAnswer(i, outcome) ==
  /\ dets[i].detecting > 0
  /\ outcome = "match" => dets[i].stable < MaxStable
  /\ LET d == [dets[i] EXCEPT !.detecting = @ - 1]
         stable == IF outcome = "match" THEN d.stable + 1
                   ELSE IF outcome = "none" THEN 0 ELSE d.stable
     IN dets' = [dets EXCEPT ![i] =
                   IF outcome = "return"
                   THEN OverDet([d EXCEPT !.detectRunning = FALSE])
                   ELSE IF stable >= NEED
                   THEN [d EXCEPT !.ready = TRUE, !.stable = stable,
                                  !.capturing = @ + 1]
                   ELSE OverDet([d EXCEPT !.ready = TRUE, !.stable = stable,
                                          !.detectRunning = FALSE])]
  /\ UNCHANGED <<services, desk, wall, loops, emitted>>

\* setPending({...}) and the countdown effect it starts: setCountdown(10),
\* setInterval(..., 1000)
setPending(ov, p) ==
  [ov EXCEPT !.pending = p, !.countdown = COUNTDOWN_FROM, !.interval = TRUE]

\* captureFrame() answers the detection that matched: with a frame the loop
\* stops itself and the confirmation overlay is shown
DetectCaptured(i, got) ==
  /\ dets[i].capturing > 0
  /\ LET d == [dets[i] EXCEPT !.capturing = @ - 1, !.detectRunning = FALSE]
     IN IF got
        THEN /\ dets' = [dets EXCEPT ![i] =
                          OverDet([d EXCEPT !.cancelled = TRUE, !.pc = "ended"])]
             /\ emitted' = Append(emitted, Emission("pending", i, 0, dets[i].left))
             /\ overlay' = IF overlay.gone THEN overlay
                           ELSE setPending(overlay, Len(emitted) + 1)
        ELSE /\ dets' = [dets EXCEPT ![i] = OverDet(d)]
             /\ UNCHANGED <<emitted, overlay>>
  /\ UNCHANGED <<services, removed, marks, wall, loops>>

NextDetect ==
  \/ \E i \in Mounts : StartDetect(i)
  \/ \E i \in Mounts : LeaveDetect(i)
  \/ \E i \in Mounts : run(i)
  \/ \E i \in Mounts, outcome \in {"return", "none", "match"} : DetectAnswer(i, outcome)
  \/ \E i \in Mounts, got \in BOOLEAN : DetectCaptured(i, got)

SpecDetect == InitWith({NoSchedule}, {TRUE}) /\ [][NextDetect]_vars

\* ---------------------------------- capture view: the confirmation overlay
\* the cleanups of the detection effects when the view is unmounted
Cleaned(ds) ==
  [i \in Mounts |->
     IF ds[i].pc # "unmounted" /\ ~ds[i].left
     THEN OverDet([ds[i] EXCEPT !.cancelled = TRUE, !.left = TRUE, !.pc = "ended"])
     ELSE ds[i]]

\* variant: the parent keeps the capture view on screen
handleCapture_StaysInView(ov, ds) == [overlay |-> ov, dets |-> ds]

\* AttendanceView.handleCapture, up to its await: setIsCaptureMode(false)
\* takes the capture view off the screen, which runs the cleanups of its effects
handleCapture(ov, ds) ==
  [overlay |-> [ov EXCEPT !.pending = 0, !.interval = FALSE, !.gone = TRUE],
   dets |-> Cleaned(ds)]

\* the overlay calls onCapture(pending.blob, pending.userId)
onCapture(kind, ov) ==
  LET left == handleCapture(ov, dets)
  IN /\ emitted' = Append(emitted, Emission(kind, 0, overlay.pending, FALSE))
     /\ overlay' = left.overlay
     /\ dets' = left.dets

\* the Confirm button: handleConfirmPending
ConfirmPending ==
  /\ overlay.pending # 0
  /\ onCapture("confirmed", overlay)
  /\ UNCHANGED <<services, removed, marks, wall, loops>>

\* the Cancel button: handleCancelPending, and the cleanup of the countdown
CancelPending ==
  /\ overlay.pending # 0
  /\ overlay' = [overlay EXCEPT !.pending = 0, !.interval = FALSE]
  /\ emitted' = Append(emitted, Emission("cancelled", 0, overlay.pending, FALSE))
  /\ UNCHANGED <<services, removed, marks, wall, loops, dets>>

\* the countdown's interval fires: at c <= 1 it clears itself and calls onCapture
CountdownTick ==
  /\ overlay.interval
  /\ IF overlay.countdown <= 1
     THEN onCapture("expired", [overlay EXCEPT !.countdown = 0, !.interval = FALSE])
     ELSE /\ overlay' = [overlay EXCEPT !.countdown = @ - 1]
          /\ UNCHANGED <<emitted, dets>>
  /\ UNCHANGED <<services, removed, marks, wall, loops>>

NextConfirm ==
  \/ NextDetect
  \/ ConfirmPending
  \/ CancelPending
  \/ CountdownTick

SpecConfirm == InitWith({NoSchedule}, {TRUE}) /\ [][NextConfirm]_vars

\* ------------------------------------------------------------------ claims
\* What the claims speak of, stated from the log itself.
DayOf(t) == t \div DayLen
Days == 0..(MaxDays - 1)
Identities == UserIdSet

\* the SUCCESS events of one identity created on one calendar day, by time
SuccessOn(ls, id, day) ==
  SelectSeq(ls, LAMBDA l : l.result = "SUCCESS" /\ l.user = id /\ DayOf(l.created) = day)

\* the log as the last markAttendance call found it
Before == IF call.logged THEN SubSeq(logs, 1, Len(logs) - 1) ELSE logs

\* the SUCCESS events the resolved identity had today when the last call ran
Prior == SuccessOn(Before, call.rec.id, DayOf(call.now))

Resolved == call.stage = "VERDICT" /\ call.rec # NoRec

Alternates(evs) ==
  \A i \in 1..Len(evs) : evs[i].checkType = IF i % 2 = 1 THEN "IN" ELSE "OUT"

\* C1: for every identity and every calendar day the SUCCESS events, by time,
\* alternate IN, OUT starting with IN, and there are never more than two.
C1_DailyAlternation ==
  \A id \in Identities, day \in Days :
    LET evs == SuccessOn(logs, id, day)
    IN Len(evs) <= 2 /\ Alternates(evs)

\* C2: a call that resolves an identity with two or more SUCCESS events today
\* returns DAY_COMPLETED and creates no event.
C2_DayCompleted ==
  (Resolved /\ Len(Prior) >= 2) =>
    (~resp.ok /\ resp.reason = "DAY_COMPLETED" /\ ~call.logged)

\* C3: a call that resolves an identity with exactly one SUCCESS event today
\* returns TOO_SOON and creates no event when less than MIN_GAP has elapsed since
\* that event, and creates a SUCCESS event with checkType OUT otherwise.
C3_MinGap ==
  (Resolved /\ Len(Prior) = 1) =>
    IF call.now - Prior[1].created < MIN_GAP_MS
    THEN ~resp.ok /\ resp.reason = "TOO_SOON" /\ ~call.logged
    ELSE /\ resp.ok /\ call.logged
         /\ logs[Len(logs)].result = "SUCCESS"
         /\ logs[Len(logs)].checkType = "OUT"

\* C4: a SUCCESS event is IN when the identity had no SUCCESS event today at the
\* time of the attempt, and OUT when it had exactly one.
C4_CheckTypeByCount ==
  (Resolved /\ resp.ok /\ call.logged) =>
    /\ Len(Prior) = 0 => logs[Len(logs)].checkType = "IN"
    /\ Len(Prior) = 1 => logs[Len(logs)].checkType = "OUT"

\* the event the last call created, when it created one
Created == logs[Len(logs)]

Emitted == Resolved /\ resp.ok /\ call.logged

\* the instant HH:mm of the day of t
ShiftInstant(hhmm, t) == DayOf(t) * DayLen + (hhmm[1] * 60 + hhmm[2]) * TicksPerMinute

\* m is a whole number of minutes nearest to a span of ticks
NearestMinute(span, m) ==
  /\ m >= 0
  /\ 2 * (span - m * TicksPerMinute) <= TicksPerMinute
  /\ 2 * (m * TicksPerMinute - span) <= TicksPerMinute

\* C5: an IN event of an identity with a shiftStart is LATE exactly when now is
\* strictly after scheduledStart plus graceMinutes, with lateMinutes the time past
\* that instant rounded to the nearest minute; otherwise it is ON_TIME.
C5_LateAfterGrace ==
  (Emitted /\ Created.checkType = "IN" /\ call.rec.shiftStart # NoVec) =>
    LET latest == ShiftInstant(call.rec.shiftStart, call.now)
                    + call.rec.graceMinutes * TicksPerMinute
    IN IF call.now > latest
       THEN /\ Created.status = "LATE" /\ resp.status = "LATE"
            /\ NearestMinute(call.now - latest, resp.lateMinutes)
       ELSE Created.status = "ON_TIME" /\ resp.status = "ON_TIME"

C5_Witness ==
  /\ Emitted /\ Created.checkType = "IN" /\ call.rec.shiftStart # NoVec
  /\ call.rec.graceMinutes = 1
  /\ Created.status = "LATE" /\ resp.lateMinutes = 1

\* C6: an OUT event of an identity with a shiftEnd is EARLY exactly when now is
\* strictly before scheduledEnd and ON_TIME otherwise; an OUT event is never
\* LATE and an IN event is never EARLY.
C6_EarlyBeforeEnd ==
  Emitted =>
    /\ resp.status = Created.status
    /\ (Created.checkType = "OUT" /\ call.rec.shiftEnd # NoVec) =>
         Created.status = IF call.now < ShiftInstant(call.rec.shiftEnd, call.now)
                          THEN "EARLY" ELSE "ON_TIME"
    /\ Created.checkType = "OUT" => Created.status # "LATE"
    /\ Created.checkType = "IN" => Created.status # "EARLY"

C6_Witness ==
  /\ Emitted /\ Created.checkType = "OUT" /\ call.rec.shiftEnd # NoVec
  /\ Created.status = "EARLY"

\* C7: every SUCCESS event of an identity with neither shiftStart nor shiftEnd
\* has status ON_TIME and lateMinutes 0, IN and OUT alike.
C7_NoScheduleOnTime ==
  (Emitted /\ call.rec.shiftStart = NoVec /\ call.rec.shiftEnd = NoVec) =>
    /\ Created.status = "ON_TIME" /\ resp.status = "ON_TIME"
    /\ resp.lateMinutes = 0

C7_Witness ==
  /\ Emitted /\ call.rec.shiftStart = NoVec /\ call.rec.shiftEnd = NoVec
  /\ Created.checkType = "OUT" /\ call.now > 0

\* ---- the matcher
Called == call.stage # ""
NoFaceProbe == Called /\ call.img.desc = NoVec

Compared == {i \in 1..Len(call.descs) : call.descs[i] # NoVec}
SqDist(i) ==
  (call.img.desc[1] - call.descs[i][1]) * (call.img.desc[1] - call.descs[i][1])
  + (call.img.desc[2] - call.descs[i][2]) * (call.img.desc[2] - call.descs[i][2])
Nearest == {i \in Compared : \A j \in Compared : SqDist(i) <= SqDist(j)}
FirstNearest == CHOOSE i \in Nearest : \A j \in Nearest : i <= j
WithinDistance == Compared # {} /\ SqDist(FirstNearest) <= THRESH * THRESH
Matched == Called /\ resp.reason # "NO_MATCH" /\ resp.reason # "NO_FACE"

\* s is max(0, 1 - d) for the distance d of the nearest candidate, 0 without one
IsSimilarity(s) ==
  IF Compared = {} \/ SqDist(FirstNearest) >= 100 THEN s = 0
  ELSE s > 0 /\ s <= 10 /\ (10 - s) * (10 - s) = SqDist(FirstNearest)

C10_FirstNearestWins ==
  (call.stage = "VERDICT" /\ Matched) =>
    /\ call.rec.userId = call.cands[FirstNearest]
    /\ resp.ok => resp.user_id = call.cands[FirstNearest]

C10_Witness ==
  /\ call.stage = "VERDICT" /\ resp.ok
  /\ Cardinality(Nearest) = 2
  /\ resp.user_id = "u2"

\* ---- the candidate index
\* the shortlistByBlob calls that have returned a list
Shortlisted(t) ==
  tasks[t].op = "shortlist" /\ tasks[t].pc = "done" /\ tasks[t].out = "ok"

\* C11: at most one build of the candidate index (one fetch of the full identity
\* list) is in flight at any time, whatever calls arrive meanwhile.
C11_OneBuildInFlight == Cardinality(InFlight) <= 1

C11_Witness ==
  \E t, b \in Callers :
    /\ b \in InFlight
    /\ tasks[t].pc = "done" /\ tasks[t].joined = b

\* C12: a buildCandidateIndex call that arrives while a build is in flight
\* returns the same candidates as that build returns to the call that started it.
C12_SameAsInFlight ==
  \A t, b \in Callers :
    (tasks[t].op = "build" /\ tasks[t].joined = b /\ tasks[b].hasBuilt) =>
      tasks[t].ret = tasks[b].built

\* C13: shortlistByBlob(probe, k) returns at most k candidates, never more than
\* there are candidates in the cache, and no candidate twice.
C13_AtMostK ==
  \A t \in Callers :
    Shortlisted(t) =>
      /\ Len(tasks[t].ret) <= tasks[t].k
      /\ Len(tasks[t].ret) <= Len(tasks[t].ranked)
      /\ \A i, j \in 1..Len(tasks[t].ret) :
           tasks[t].ret[i].recId = tasks[t].ret[j].recId => i = j

C13_Witness ==
  \E t \in Callers :
    /\ Shortlisted(t) /\ tasks[t].k = 1
    /\ Len(tasks[t].ranked) = 2 /\ Len(tasks[t].ret) = 1

\* the similarity a candidate is ranked with: the cosine of its signature and
\* the probe's, -1 for a candidate without a signature
SigSimilarity(t, c) ==
  IF c.sig = NoVec THEN 0 - SigScale * SigScale
  ELSE c.sig[1] * tasks[t].blob[1] + c.sig[2] * tasks[t].blob[2]

\* the place of a candidate in the cache when it was ranked
CachePosition(t, c) ==
  CHOOSE i \in 1..Len(tasks[t].ranked) : tasks[t].ranked[i].recId = c.recId

\* C14: the list shortlistByBlob returns is in non-increasing order of signature
\* similarity to the probe, and candidates of equal similarity are in the order
\* they have in the cache.
C14_RankedBySimilarity ==
  \A t \in Callers :
    Shortlisted(t) =>
      \A i, j \in 1..Len(tasks[t].ret) :
        i < j =>
          \/ SigSimilarity(t, tasks[t].ret[i]) > SigSimilarity(t, tasks[t].ret[j])
          \/ /\ SigSimilarity(t, tasks[t].ret[i]) = SigSimilarity(t, tasks[t].ret[j])
             /\ CachePosition(t, tasks[t].ret[i]) < CachePosition(t, tasks[t].ret[j])

C14_Witness ==
  \E t \in Callers :
    /\ Shortlisted(t) /\ Len(tasks[t].ret) = 2
    /\ tasks[t].ret[1].sig # NoVec /\ tasks[t].ret[2].sig # NoVec
    /\ SigSimilarity(t, tasks[t].ret[1]) = SigSimilarity(t, tasks[t].ret[2])

\* C15, as claimed: every candidate shortlistByBlob ranks has a computed
\* signature.
C15_NoMissingSignature ==
  \A t \in Callers :
    tasks[t].hasRanked =>
      \A i \in 1..Len(tasks[t].ranked) : tasks[t].ranked[i].sig # NoVec

\* C15, amended: a candidate shortlistByBlob ranks has a fully computed signature,
\* or none because the fetch of its reference image failed during the fill or
\* because the cache was replaced by a build that completed during the fill; a
\* candidate without a signature is ranked behind those that have one.
C15_MissingOnlyAfterFailure ==
  \A t \in Callers :
    tasks[t].hasRanked =>
      /\ \A i \in 1..Len(tasks[t].ranked) :
           LET c == tasks[t].ranked[i]
           IN IF c.sig = NoVec
              THEN c.recId \in tasks[t].failed \/ tasks[t].raced
              ELSE c.sig = RefImage(c.imageUrl).sig
      /\ \A i, j \in 1..Len(tasks[t].ret) :
           (i < j /\ tasks[t].ret[i].sig = NoVec) => tasks[t].ret[j].sig = NoVec

C15_Witness ==
  \E t \in Callers :
    /\ Shortlisted(t) /\ ~tasks[t].raced /\ Len(tasks[t].ret) = 2
    /\ tasks[t].ret[1].sig # NoVec
    /\ tasks[t].ret[2].sig = NoVec /\ tasks[t].ret[2].recId \in tasks[t].failed

\* C16: with no identity enrolled, shortlistByBlob returns the empty list and no
\* error, and markAttendance logs one NO_MATCH event and returns NO_MATCH.
C16_EmptyPopulation ==
  /\ \A t \in Callers :
       (tasks[t].op = "shortlist" /\ tasks[t].pc = "done" /\ tasks[t].users = {}) =>
         tasks[t].out = "ok" /\ tasks[t].ret = << >>
  /\ (Called /\ call.users = {}) =>
       /\ ~resp.ok /\ resp.reason = "NO_MATCH"
       /\ call.logged /\ logs # << >> /\ logs[Len(logs)].result = "NO_MATCH"

\* ---- enrollment and the outcomes of a call
\* C17: there is never more than one enrolled record for a userId, and an
\* enrollUser call for a userId that is already enrolled fails.
C17_OneIdentityPerUserId ==
  /\ \A r1, r2 \in enrolled : r1.userId = r2.userId => r1 = r2
  /\ (call.stage = "ENROLL" /\ call.hint \in call.users) => ~resp.ok

\* C18: a call that ends in NO_FACE or NO_MATCH returns a failure value and has
\* logged an event with that result and without identity, checkType and status.
C18_FailureLogged ==
  (Called /\ ~resp.ok /\ resp.reason \in {"NO_FACE", "NO_MATCH"}) =>
    /\ call.logged /\ logs # << >>
    /\ Created.result = resp.reason
    /\ Created.user = "" /\ Created.checkType = "" /\ Created.status = ""

C18_Witness ==
  /\ Called /\ call.stage = "VERDICT" /\ resp.reason = "NO_MATCH"
  /\ logs # << >> /\ Created.result = "NO_MATCH" /\ Created.similarity > 0

\* the outcome of a call: SUCCESS or the reason of the failure
Outcome(r) == IF r.ok THEN "SUCCESS" ELSE r.reason

\* C19: a markAttendance call appends exactly one event, carrying its outcome,
\* when the outcome is SUCCESS, NO_MATCH or NO_FACE, and leaves the log as it is
\* when the outcome is DAY_COMPLETED or TOO_SOON.
C19_OneEventPerCall ==
  [][ (call' # call \/ resp' # resp \/ logs' # logs) =>
        IF Outcome(resp') \in {"SUCCESS", "NO_MATCH", "NO_FACE"}
        THEN /\ Len(logs') = Len(logs) + 1
             /\ SubSeq(logs', 1, Len(logs)) = logs
             /\ logs'[Len(logs')].result = Outcome(resp')
        ELSE /\ Outcome(resp') \in {"DAY_COMPLETED", "TOO_SOON"}
             /\ logs' = logs ]_vars

C19_Witness ==
  /\ Called /\ Outcome(resp) = "DAY_COMPLETED"
  /\ Len(logs) = 2 /\ logs[1].checkType = "IN" /\ logs[2].checkType = "OUT"

\* C20: a call in which the read of today's events fails ends in a fault thrown
\* to the caller and creates no event.
C20_FaultPropagated ==
  (Called /\ call.logsFail) => (resp = Thrown /\ ~call.logged)

\* What the claims about the capture view speak of.
Evaluated(i) == loops[i].frames > 0
Captures == {k \in 1..Len(emitted) : emitted[k].kind = "onCapture"}

\* the frame the loop evaluated last made it call onCapture
TriggeredOn(i) ==
  \E k \in Captures : emitted[k].inst = i /\ emitted[k].frame = loops[i].frames

C23_DiscardedAfterCancel ==
  \A k \in 1..Len(emitted) : ~emitted[k].left

\* C24: within one detection loop at most one frame is being processed.
C24_OneFrameInFlight ==
  \A i \in Mounts :
    /\ dets[i].detecting + dets[i].capturing <= 1
    /\ dets[i].detecting + dets[i].capturing = 1 => dets[i].detectRunning

\* an animation frame arrived while a detection was in flight
C24_Witness ==
  \E i \in Mounts : dets[i].skipped /\ dets[i].detecting + dets[i].capturing = 1

\* C25 as stated: a frame without presence leaves stableCount 0, entering and
\* prevPresence false and does not trigger; a frame on which presence appears
\* leaves entering true and stableCount 0.
C25_PresenceEffects ==
  \A i \in Mounts :
    Evaluated(i) =>
      LET l == loops[i]
      IN /\ ~l.ev.presence =>
              l.stableCount = 0 /\ ~l.entering /\ ~l.prevPresence /\ ~TriggeredOn(i)
         /\ l.ev.presence /\ ~l.ev.wasPresent => l.entering /\ l.stableCount = 0

\* C25: a frame without presence leaves stableCount 0, entering and
\* prevPresence false and does not trigger; a frame on which presence appears
\* leaves entering true, and stableCount 1 when its similarity to the frame
\* before it exceeds STABLE_SIM, 0 otherwise.
C25_PresenceEffectsThenCount ==
  \A i \in Mounts :
    Evaluated(i) =>
      LET l == loops[i]
      IN /\ ~l.ev.presence =>
              l.stableCount = 0 /\ ~l.entering /\ ~l.prevPresence /\ ~TriggeredOn(i)
         /\ l.ev.presence /\ ~l.ev.wasPresent =>
              /\ l.entering
              /\ l.stableCount = IF l.ev.hadPrev /\ Above(l.ev.sim, STABLE_SIM)
                                 THEN 1 ELSE 0

\* presence appears on a frame that is close to the frame before it
C25_Witness ==
  \E i \in Mounts :
    /\ Evaluated(i) /\ loops[i].ev.presence /\ ~loops[i].ev.wasPresent
    /\ loops[i].ev.hadPrev /\ loops[i].stableCount = 1

Produced == {loops[i].prevSig : i \in Mounts} \ {NoSig}

\* C27: a produced signature has similarity 1 to itself, and two produced
\* signatures have a similarity between -1 and 1.
C27_UnitSignatures ==
  \A a \in Produced, b \in Produced :
    LET self == cosineSimFrac(a, a)
        pair == cosineSimFrac(a, b)
    IN /\ self.num = self.den
       /\ -pair.den <= pair.num /\ pair.num <= pair.den

\* C28: markAttendance never returns the reason MULTIPLE_FACES and never logs
\* an event with the result MULTIPLE_FACES.
C28_NeverMultipleFaces ==
  /\ resp.reason # "MULTIPLE_FACES"
  /\ \A k \in 1..Len(logs) : logs[k].result # "MULTIPLE_FACES"

\* markAttendance has answered for a photo of two faces
C28_Witness == call.stage # "" /\ call.img.faces = 2 /\ Len(logs) > 0

\* C29: a shortlistByBlob call made after clearCandidateIndex() ranks only
\* candidates that were in the record store at the invalidation or later.
C29_FreshAfterInvalidation ==
  \A t \in Callers :
    tasks[t].after /\ tasks[t].hasRanked =>
      \A k \in 1..Len(tasks[t].ranked) :
        tasks[t].ranked[k].userId \in tasks[t].afterUsers

\* C30: every step leaves the attendance events there are as they are, in
\* their order; the log only grows.
C30_AppendOnly ==
  [][Len(logs') >= Len(logs) /\ SubSeq(logs', 1, Len(logs)) = logs]_vars

\* an identity with events in the log has been deleted
C30_Witness ==
  \E k \in 1..Len(logs) :
    logs[k].user # "" /\ \A r \in enrolled : r.id # logs[k].user

\* C33: a shortlistByBlob call with k >= 1 that arrives while the first build
\* of the index is in flight returns candidates when some enrolled identity has
\* an image.
C33_NonEmptyDuringBuild ==
  \A t \in Callers :
    ( /\ tasks[t].op = "shortlist" /\ tasks[t].out = "ok"
      /\ tasks[t].joined # 0 /\ tasks[t].k >= 1
      /\ tasks[t].imaged # {} )
      => Len(tasks[t].ret) > 0

\* C34: a shortlistByBlob call does not fault.
C34_NoFaultOnInvalidation ==
  \A t \in Callers : tasks[t].op = "shortlist" => tasks[t].out # "fault"

\* C37 as stated: every SUCCESS outcome with status LATE carries lateMinutes of
\* at least 1, every ON_TIME or EARLY one carries 0, and none is negative.
C37_LateAtLeastOne ==
  Emitted =>
    /\ resp.lateMinutes >= 0
    /\ resp.status = "LATE" => resp.lateMinutes >= 1
    /\ resp.status \in {"ON_TIME", "EARLY"} => resp.lateMinutes = 0

\* C37: every SUCCESS outcome carries a lateMinutes that is not negative; with
\* status LATE it is the time past the grace period rounded to the nearest
\* minute (0 when that time is under half a minute), with status ON_TIME or
\* EARLY it is 0.
C37_LateMinutesRounded ==
  Emitted =>
    /\ resp.lateMinutes >= 0
    /\ resp.status = "LATE" =>
         /\ call.rec.shiftStart # NoVec
         /\ NearestMinute(call.now - ShiftInstant(call.rec.shiftStart, call.now)
                            - call.rec.graceMinutes * TicksPerMinute,
                          resp.lateMinutes)
    /\ resp.status \in {"ON_TIME", "EARLY"} => resp.lateMinutes = 0

C37_Witness ==
  /\ Emitted /\ resp.status = "LATE" /\ resp.lateMinutes = 0
  /\ call.now > ShiftInstant(call.rec.shiftStart, call.now)
                  + call.rec.graceMinutes * TicksPerMinute

C40_HintRestricts ==
  (Called /\ call.hint # "" /\ call.stage # "NO_USERS") =>
    IF call.hint \in call.imaged
    THEN /\ call.cands = << call.hint >>
         /\ resp.ok => resp.user_id = call.hint
    ELSE call.hint \notin call.users =>
           \/ call.cands = call.short
           \/ call.stage = "NO_CANDIDATES" /\ call.short = << >>

C35_EnrolledLaterIsRanked ==
  ( /\ Called /\ call.stage \notin {"ENROLL", "NO_USERS"} /\ call.hint = ""
    /\ Cardinality(call.imaged) <= SHORTLIST_K ) =>
    \A u \in call.imaged :
      /\ \E i \in 1..Len(call.short) : call.short[i] = u
      /\ call.img = ProbeOf(u) => resp.reason # "NO_MATCH"

\* C36: once deleteUser(id) has completed, and until id is enrolled again, no
\* markAttendance invocation creates a SUCCESS event for that identity.
C36_NoSuccessAfterDelete ==
  [][ ( /\ Len(logs') > Len(logs) /\ IsSuccess(logs'[Len(logs')])
        /\ call'.stage = "VERDICT" )
        => resp'.user_id \notin removed ]_vars

\* both invocations read today's events before either wrote
Overlapped(m, n) ==
  /\ m # n /\ marks[m].pc = "done" /\ marks[n].pc = "done"
  /\ marks[m].seen < marks[n].wrote /\ marks[n].seen < marks[m].wrote
  /\ marks[m].seen < marks[m].wrote /\ marks[n].seen < marks[n].wrote

Succeeded(m) == marks[m].pc = "done" /\ marks[m].r[1].resp.ok

\* C32: of two markAttendance invocations for one identity that both read
\* today's events before either writes, at most one creates a SUCCESS event;
\* no day of an identity gets two IN events or a third SUCCESS event.
C32_OneSuccessWhenOverlapped ==
  /\ \A m, n \in Marks :
       (Overlapped(m, n) /\ marks[m].r[1].resp.user_id = marks[n].r[1].resp.user_id)
         => ~(Succeeded(m) /\ Succeeded(n))
  /\ \A id \in Identities, d \in Days :
       LET s == SuccessOn(logs, id, d)
       IN /\ Len(s) <= 2
          /\ Cardinality({i \in 1..Len(s) : s[i].checkType = "IN"}) <= 1

\* the onCapture calls the overlay has made for the pending match p
OverlayCalls(p) ==
  {k \in 1..Len(emitted) :
     emitted[k].kind \in {"confirmed", "expired"} /\ emitted[k].frame = p}

Pendings == {k \in 1..Len(emitted) : emitted[k].kind = "pending"}

====
